---- MODULE Spec2Model ----
(***************************************************************************)
(* Model of scripts/silva_conv.py: convert_fasta_headers and main.         *)
(* Text is modelled as a sequence of one-character strings, a file as the  *)
(* sequence of its characters.  The line source is lazy: every iteration   *)
(* of the loop draws the next raw line (terminated by a line break).       *)
(***************************************************************************)
EXTENDS Integers, Sequences, FiniteSets, TLC

\* ---------------------------------------------------------------- bounds
MaxLines == 3
MaxTokens == 6
MaxTaxa == 8
MaxProcessed == 20000
MaxData == 2

\* ------------------------------------------------------ program constants
FlushInterval == 10000

rank_prefixes ==
  << <<"k","_","_">>, <<"p","_","_">>, <<"c","_","_">>, <<"o","_","_">>,
     <<"f","_","_">>, <<"g","_","_">>, <<"s","_","_">> >>

VARIABLES pc, consumed, sequence_counter, processed_lines, outbuf, disk,
          flushes, stdout, exit_status, failure

vars == <<pc, consumed, sequence_counter, processed_lines, outbuf, disk,
          flushes, stdout, exit_status, failure>>

\* ------------------------------------------------------------ text helpers
NL == "\n"

IsSpace(c) == c \in {" ", "\n", "\t"}

RECURSIVE LStrip(_)
LStrip(s) == IF s # <<>> /\ IsSpace(Head(s)) THEN LStrip(Tail(s)) ELSE s

RECURSIVE RStrip(_)
RStrip(s) ==
  IF s # <<>> /\ IsSpace(s[Len(s)]) THEN RStrip(SubSeq(s, 1, Len(s) - 1)) ELSE s

\* only the trailing blanks removed
Strip_trailing(s) == RStrip(s)

\* str.strip()
Strip(s) == RStrip(LStrip(s))

\* str.startswith('>')
StartsWithGt(s) == s # <<>> /\ Head(s) = ">"

\* str.split(sep): always at least one piece
RECURSIVE Split(_, _)
Split(s, sep) ==
  IF \A i \in 1..Len(s) : s[i] # sep
  THEN <<s>>
  ELSE LET i == CHOOSE j \in 1..Len(s) :
                  s[j] = sep /\ \A k \in 1..(j - 1) : s[k] # sep
       IN  <<SubSeq(s, 1, i - 1)>> \o Split(SubSeq(s, i + 1, Len(s)), sep)

\* sep.join(parts)
RECURSIVE Join(_, _)
Join(parts, sep) ==
  IF parts = <<>> THEN <<>>
  ELSE IF Len(parts) = 1 THEN parts[1]
  ELSE parts[1] \o <<sep>> \o Join(Tail(parts), sep)

Digit == <<"0","1","2","3","4","5","6","7","8","9">>

\* str(n) for n >= 0, as the f-string formats the counter
RECURSIVE IntToStr(_)
IntToStr(n) ==
  IF n < 10 THEN <<Digit[n + 1]>>
  ELSE IntToStr(n \div 10) \o <<Digit[(n % 10) + 1]>>

\* ------------------------------------------------------ per-line rewriting
\* the filter condition inverted
KeepsTaxon_inverted(tax) == Strip(tax) = <<>>

\* the blank tokens kept
KeepsTaxon_all(tax) == TRUE

KeepsTaxon(tax) == Strip(tax) # <<>>

\* [tax.strip() for tax in taxonomy if tax.strip()]
FilterTaxa(taxonomy) ==
  LET kept == SelectSeq(taxonomy, KeepsTaxon)
  IN  [i \in 1..Len(kept) |-> Strip(kept[i])]

\* the prefix table wrapped around instead of running out
FormatTaxon_wrap(i, taxon) == rank_prefixes[(i % Len(rank_prefixes)) + 1] \o taxon

\* the enumerate loop: i is the 0-indexed position
FormatTaxon(i, taxon) ==
  IF i < Len(rank_prefixes) THEN rank_prefixes[i + 1] \o taxon ELSE taxon

FormatTaxonomy(taxonomy) ==
  [j \in 1..Len(taxonomy) |-> FormatTaxon(j - 1, taxonomy[j])]

\* the header trimmed before it is written
NewHeader_trimmed(line, counter) ==
  RStrip(<<">","s","e","q","_">> \o IntToStr(counter) \o <<" ">>
           \o Join(FormatTaxonomy(FilterTaxa(Split(Tail(line), ";"))), ";"))

\* line is the stripped line, starting with '>'
NewHeader(line, counter) ==
  <<">","s","e","q","_">> \o IntToStr(counter) \o <<" ">>
    \o Join(FormatTaxonomy(FilterTaxa(Split(Tail(line), ";"))), ";")

IsHeader(raw) == StartsWithGt(Strip(raw))

\* a blank line written as nothing at all
Rewrite_skipBlank(raw, counter) ==
  IF IsHeader(raw) THEN NewHeader(Strip(raw), counter) \o <<NL>>
  ELSE IF Strip(raw) = <<>> THEN <<>> ELSE Strip(raw) \o <<NL>>

\* the text handed to outfile.write for one raw input line
Rewrite(raw, counter) ==
  IF IsHeader(raw) THEN NewHeader(Strip(raw), counter) \o <<NL>>
  ELSE Strip(raw) \o <<NL>>

\* line[1:].split(';') of a raw header line
TokensOf(raw) == Split(Tail(Strip(raw)), ";")

NextCounter(raw, counter) == IF IsHeader(raw) THEN counter + 1 ELSE counter

\* the checkpoint one line early
FlushDue_early(processed) == (processed + 1) % FlushInterval = 0

FlushDue(processed) == processed % FlushInterval = 0

\* for line in infile: the lines of a text, each with its line break
RECURSIVE ReadLines(_)
ReadLines(text) ==
  IF text = <<>> THEN <<>>
  ELSE IF \A i \in 1..Len(text) : text[i] # NL THEN <<text>>
  ELSE LET i == CHOOSE j \in 1..Len(text) :
                  text[j] = NL /\ \A k \in 1..(j - 1) : text[k] # NL
       IN  <<SubSeq(text, 1, i)>> \o ReadLines(SubSeq(text, i + 1, Len(text)))

\* everything a complete run writes for the raw lines, from counter on
RECURSIVE ConvertLines(_, _)
ConvertLines(lines, counter) ==
  IF lines = <<>> THEN <<>>
  ELSE Rewrite(Head(lines), counter)
         \o ConvertLines(Tail(lines), NextCounter(Head(lines), counter))

\* convert_fasta_headers run on a file holding text
ConvertText(text) == ConvertLines(ReadLines(text), 1)

\* ------------------------------------------------------------- line source
\* raw lines of the source: optional leading blank, optional '>', a body,
\* and the line break
RawLines ==
  { lead \o mark \o body \o <<NL>> :
      lead \in {<<>>, <<" ">>}, mark \in {<<>>, <<">">>},
      body \in {<<>>, <<"a">>, <<"a", " ">>} }

\* ------------------------------------------------------------------- state
Init ==
  /\ pc = "start"
  /\ consumed = <<>>
  /\ sequence_counter = 1
  /\ processed_lines = 0
  /\ outbuf = <<>>
  /\ disk = <<>>
  /\ flushes = 0
  /\ stdout = <<>>
  /\ exit_status = -1
  /\ failure = "none"

\* both files open: 'w' truncates the output, the counters are set
OpenFiles ==
  /\ pc = "start"
  /\ pc' = "loop"
  /\ sequence_counter' = 1
  /\ processed_lines' = 0
  /\ disk' = <<>>
  /\ outbuf' = <<>>
  /\ UNCHANGED <<consumed, flushes, stdout, exit_status, failure>>

\* the increment of the counter moved out of the header branch
Counters_everyLine(isHdr) ==
  /\ sequence_counter' = sequence_counter + 1
  /\ processed_lines' = processed_lines + 1
  /\ flushes' = IF FlushDue(processed_lines + 1) THEN flushes + 1 ELSE flushes
  /\ stdout' = IF FlushDue(processed_lines + 1)
               THEN Append(stdout, "progress") ELSE stdout

\* the counters and the periodic checkpoint of one loop iteration
Counters(isHdr) ==
  /\ sequence_counter' = IF isHdr THEN sequence_counter + 1 ELSE sequence_counter
  /\ processed_lines' = processed_lines + 1
  /\ flushes' = IF FlushDue(processed_lines + 1) THEN flushes + 1 ELSE flushes
  /\ stdout' = IF FlushDue(processed_lines + 1)
               THEN Append(stdout, "progress") ELSE stdout

\* one iteration of the loop on raw line raw; spill: the buffered writer
\* hands its buffer to the file because the buffer is full
HandleLine(raw, spill) ==
  /\ pc = "loop"
  /\ consumed' = Append(consumed, raw)
  /\ Counters(IsHeader(raw))
  /\ LET written == outbuf \o Rewrite(raw, sequence_counter)
     IN  IF spill \/ FlushDue(processed_lines + 1)
         THEN disk' = disk \o written /\ outbuf' = <<>>
         ELSE disk' = disk /\ outbuf' = written
  /\ UNCHANGED <<pc, exit_status, failure>>

\* the for loop takes the next line of the source, one of lines
ReadLine(lines, limit) ==
  /\ pc = "loop"
  /\ processed_lines < limit
  /\ \E raw \in lines, spill \in BOOLEAN : HandleLine(raw, spill)

\* the buffer dropped at close
CloseOut_noFlush(d, b) == d

\* contents of the output file once the with block has closed it
CloseOut(d, b) == d \o b

\* end of input: the with block closes both files, main reports success
Finish ==
  /\ pc = "loop"
  /\ pc' = "exited"
  /\ disk' = CloseOut(disk, outbuf)
  /\ outbuf' = <<>>
  /\ stdout' = Append(stdout, "success")
  /\ exit_status' = 0
  /\ UNCHANGED <<consumed, sequence_counter, processed_lines, flushes, failure>>

\* open() raises: a missing input (FileNotFoundError, an OSError) or another
\* OSError; convert_fasta_headers prints and re-raises, main prints and
\* returns, so the interpreter exits with status 0
OpenFail(kind) ==
  /\ pc = "start"
  /\ pc' = "exited"
  /\ failure' = kind
  /\ stdout' = stdout \o <<"oserror", IF kind = "missing" THEN "notfound" ELSE "error">>
  /\ exit_status' = 0
  /\ UNCHANGED <<consumed, sequence_counter, processed_lines, outbuf, disk, flushes>>

\* KeyboardInterrupt inside the loop: the with block closes the files, the
\* handler prints and re-raises; main does not catch it (it is no Exception),
\* the interpreter ends with a non-zero status
Interrupt ==
  /\ pc = "loop"
  /\ pc' = "exited"
  /\ failure' = "interrupt"
  /\ disk' = CloseOut(disk, outbuf)
  /\ outbuf' = <<>>
  /\ stdout' = Append(stdout, "interrupted")
  /\ exit_status' = 1
  /\ UNCHANGED <<consumed, sequence_counter, processed_lines, flushes>>

\* reading the next line raises: an OSError (printed and re-raised by
\* convert_fasta_headers) or any other Exception (passes straight through);
\* main catches both as Exception, prints, returns: exit status 0
ReadFail(kind) ==
  /\ pc = "loop"
  /\ pc' = "exited"
  /\ failure' = kind
  /\ disk' = CloseOut(disk, outbuf)
  /\ outbuf' = <<>>
  /\ stdout' = IF kind = "oserror" THEN stdout \o <<"oserror", "error">>
               ELSE Append(stdout, "error")
  /\ exit_status' = 0
  /\ UNCHANGED <<consumed, sequence_counter, processed_lines, flushes>>

Failures ==
  \/ \E kind \in {"missing", "oserror"} : OpenFail(kind)
  \/ Interrupt
  \/ \E kind \in {"oserror", "runtime"} : ReadFail(kind)

Next ==
  \/ OpenFiles
  \/ ReadLine(RawLines, MaxLines)
  \/ Finish
  \/ Failures

Spec == Init /\ [][Next]_vars

\* ------------------------------------------------- header lines, one by one
Tokens == { <<>>, <<" ">>, <<"a">>, <<" ", "k", "_", "_", "b">> }

Taxa == { <<"a">>, <<" ", "k", "_", "_", "b">> }

\* every list of at most n elements of set
ListsUpTo(set, n) == UNION {[1..k -> set] : k \in 0..n}

\* header lines: short ones with blank tokens anywhere, long ones without
HeaderLines ==
  { <<">">> \o Join(l, ";") \o <<NL>> :
      l \in ListsUpTo(Tokens, MaxTokens) \cup ListsUpTo(Taxa, MaxTaxa) }

NextHeader ==
  \/ OpenFiles
  \/ ReadLine(HeaderLines, 1)
  \/ Finish

SpecHeader == Init /\ [][NextHeader]_vars

\* --------------------------------------- long runs, the counters on their own
\* one loop iteration on a header (isHdr) or a sequence line, the text left out
CountLine(isHdr) ==
  /\ pc = "loop"
  /\ processed_lines < MaxProcessed
  /\ isHdr \/ processed_lines - (sequence_counter - 1) < MaxData
  /\ Counters(isHdr)
  /\ UNCHANGED <<pc, consumed, outbuf, disk, exit_status, failure>>

NextFlush ==
  \/ OpenFiles
  \/ \E isHdr \in BOOLEAN : CountLine(isHdr)

SpecFlush == Init /\ [][NextFlush]_vars

\* ================================================================ claims
\* everything handed to the sink so far, in the buffer or in the file
Written == disk \o outbuf

OutLines == ReadLines(Written)

HeaderCount(lines, n) == Cardinality({j \in 1..n : IsHeader(lines[j])})

RawGtCount(lines, n) == Cardinality({j \in 1..n : StartsWithGt(lines[j])})

SeqId(k) == <<">","s","e","q","_">> \o IntToStr(k) \o <<" ">>

IsPrefix(p, s) == Len(p) <= Len(s) /\ SubSeq(s, 1, Len(p)) = p

NotSpace(c) == ~IsSpace(c)

NotBlank(t) == \E i \in 1..Len(t) : ~IsSpace(t[i])

\* the table of the data model: k, p, c, o, f, g, s followed by two underscores
RankPrefixTable == [i \in 1..7 |-> <<(<<"k","p","c","o","f","g","s">>)[i], "_", "_">>]

\* the taxonomy block of an emitted header line with identifier seq_k
TaxonomyBlock(outline, k) == SubSeq(outline, Len(SeqId(k)) + 1, Len(outline) - 1)

Pieces(block) == IF block = <<>> THEN <<>> ELSE Split(block, ";")

\* C1 (as amended): a header line is a line whose first non-blank character
\* is '>'; the counter is 1 plus the number of header lines consumed, and the
\* k-th header line is emitted with identifier seq_k whatever lies between
C1_CounterCountsHeaders ==
  LET out == OutLines
  IN  /\ sequence_counter = 1 + HeaderCount(consumed, Len(consumed))
      /\ \A j \in 1..Len(consumed) :
           IsHeader(consumed[j]) =>
             /\ j <= Len(out)
             /\ IsPrefix(SeqId(HeaderCount(consumed, j)), out[j])

\* C1 (as stated): counting only the lines that start with '>', the counter
\* is 1 plus the number of such lines consumed and the k-th of them is seq_k
C1_AsStated ==
  /\ sequence_counter = 1 + RawGtCount(consumed, Len(consumed))
  /\ \A j \in 1..Len(consumed) :
       StartsWithGt(consumed[j]) =>
         /\ j <= Len(OutLines)
         /\ IsPrefix(SeqId(RawGtCount(consumed, j)), OutLines[j])

\* header, lines that are no headers, header: the second header is seq_2
C1_Witness ==
  /\ Len(consumed) = 3
  /\ IsHeader(consumed[1]) /\ ~IsHeader(consumed[2]) /\ IsHeader(consumed[3])
  /\ IsPrefix(SeqId(2), OutLines[3])
  /\ sequence_counter = 3

\* C2: after m input lines the output holds exactly m lines, and output line
\* j is the rewrite of input line j
C2_OneOutputLinePerInputLine ==
  LET out == OutLines
  IN  /\ Len(out) = Len(consumed)
      /\ \A j \in 1..Len(consumed) :
           out[j] =
             (IF IsHeader(consumed[j])
              THEN NewHeader(Strip(consumed[j]), 1 + HeaderCount(consumed, j - 1))
              ELSE Strip(consumed[j])) \o <<NL>>

C2_Witness ==
  /\ Len(consumed) = 3 /\ Len(OutLines) = 3
  /\ IsHeader(consumed[1]) /\ Strip(consumed[2]) = <<>> /\ IsHeader(consumed[3])
  /\ OutLines[2] = <<NL>>

\* C3: in an emitted header the taxon at 0-indexed position i of the filtered
\* taxon list appears as RankPrefixTable[i] followed by the taxon when i < 7
\* and unprefixed when i >= 7, in the original order, joined by ';' with no
\* trailing ';', whether or not the taxon already carries a rank tag
C3_PrefixByPosition ==
  \A j \in 1..Len(consumed) :
    IsHeader(consumed[j]) =>
      LET taxa == FilterTaxa(TokensOf(consumed[j]))
          block == TaxonomyBlock(OutLines[j], HeaderCount(consumed, j))
          pieces == Pieces(block)
      IN  /\ Len(pieces) = Len(taxa)
          /\ \A i \in 1..Len(taxa) :
               pieces[i] = IF i - 1 < 7 THEN RankPrefixTable[i] \o taxa[i]
                           ELSE taxa[i]
          /\ block # <<>> => block[Len(block)] # ";"

\* a header of eight taxa whose first already carries a rank tag
C3_Witness ==
  /\ Len(consumed) = 1 /\ IsHeader(consumed[1])
  /\ LET taxa == FilterTaxa(TokensOf(consumed[1]))
         pieces == Pieces(TaxonomyBlock(OutLines[1], 1))
     IN  /\ Len(taxa) = 8 /\ Len(pieces) = 8
         /\ taxa[1] = <<"k", "_", "_", "b">>
         /\ pieces[1] = <<"k", "_", "_", "k", "_", "_", "b">>
         /\ pieces[8] = taxa[8]

\* C4: the tokens of a header that are empty or hold only blanks are dropped
\* before the prefixes are assigned: the j-th token that survives, trimmed,
\* gets the j-th rank prefix; '>a;;k__b' yields 'k__a;p__k__b'
C4_BlankTokensDropped ==
  \A j \in 1..Len(consumed) :
    IsHeader(consumed[j]) =>
      LET survivors == SelectSeq(TokensOf(consumed[j]), NotBlank)
          pieces == Pieces(TaxonomyBlock(OutLines[j], HeaderCount(consumed, j)))
      IN  /\ Len(pieces) = Len(survivors)
          /\ \A i \in 1..Len(survivors) :
               /\ pieces[i] = FormatTaxon(i - 1, SelectSeq(survivors[i], NotSpace))
               /\ \A c \in 1..Len(pieces[i]) : ~IsSpace(pieces[i][c])
          /\ consumed[j] = <<">", "a", ";", ";", " ", "k", "_", "_", "b", NL>>
               => OutLines[j] = SeqId(1) \o <<"k", "_", "_", "a", ";",
                                             "p", "_", "_", "k", "_", "_", "b", NL>>

\* leading, consecutive, blank-only and trailing semicolons around two taxa
C4_Witness ==
  /\ Len(consumed) = 1
  /\ consumed[1] = <<">", ";", "a", ";", ";", " ", ";", "a", ";", NL>>
  /\ OutLines[1] = SeqId(1) \o <<"k", "_", "_", "a", ";", "p", "_", "_", "a", NL>>

\* the text a step adds to the sink, without its line break
Emitted == SubSeq(disk' \o outbuf', Len(Written) + 1, Len(disk' \o outbuf') - 1)

\* emitted is raw with only surrounding blanks removed
TrimOf(raw, emitted) ==
  /\ \E i, k \in 0..Len(raw) :
       /\ i + k <= Len(raw)
       /\ \A n \in 1..i : IsSpace(raw[n])
       /\ \A n \in (Len(raw) - k + 1)..Len(raw) : IsSpace(raw[n])
       /\ emitted = SubSeq(raw, i + 1, Len(raw) - k)
  /\ emitted # <<>> => ~IsSpace(emitted[1]) /\ ~IsSpace(emitted[Len(emitted)])

\* what a step does to a sequence line raw
PassedThrough(raw) ==
  /\ IsPrefix(Written, disk' \o outbuf')
  /\ Len(disk' \o outbuf') > Len(Written)
  /\ (disk' \o outbuf')[Len(disk' \o outbuf')] = NL
  /\ TrimOf(raw, Emitted)
  /\ ~IsPrefix(<<">", "s", "e", "q", "_">>, Emitted)
  /\ sequence_counter' = sequence_counter

\* C5 (as amended): every input line whose first non-blank character is not
\* '>' (a blank line included) is emitted with only its surrounding blanks
\* removed, is not rewritten as a header and leaves the counter alone
C5_SequenceLinePassesThrough ==
  [][Len(consumed') = Len(consumed) + 1 =>
       LET raw == consumed'[Len(consumed')]
       IN  ~IsHeader(raw) => PassedThrough(raw)]_vars

\* C5 (as stated): every input line that does not begin with '>' is emitted
\* trimmed, is not rewritten as a header and leaves the counter alone
C5_AsStated ==
  [][Len(consumed') = Len(consumed) + 1 =>
       LET raw == consumed'[Len(consumed')]
       IN  ~StartsWithGt(raw) => PassedThrough(raw)]_vars

\* after a header, a padded sequence line and a blank line have passed
C5_Witness ==
  /\ Len(consumed) = 3
  /\ consumed = << <<">", "a", NL>>, <<" ", "a", " ", NL>>, <<" ", NL>> >>
  /\ OutLines[2] = <<"a", NL>> /\ OutLines[3] = <<NL>>
  /\ sequence_counter = 2

\* the characters of raw that are no blanks
Solid(raw) == SelectSeq(raw, NotSpace)

\* a header line without any taxon: '>' followed by semicolons and blanks only
NoTaxa(raw) ==
  /\ Solid(raw) # <<>> /\ Solid(raw)[1] = ">"
  /\ \A i \in 2..Len(Solid(raw)) : Solid(raw)[i] = ";"

\* C6: every line consumed has produced an output line and the only failures
\* come from outside the transformation; a header without taxa is emitted as
\* '>seq_n ' and n is used up
C6_TotalAndEmptyHeader ==
  LET out == OutLines
  IN  /\ Len(out) = processed_lines
      /\ failure \in {"none", "missing", "oserror", "interrupt", "runtime"}
      /\ \A j \in 1..Len(consumed) :
           NoTaxa(consumed[j]) =>
             /\ out[j] = SeqId(1 + HeaderCount(consumed, j - 1)) \o <<NL>>
             /\ sequence_counter > 1 + HeaderCount(consumed, j - 1)
             /\ \A n \in (j + 1)..Len(consumed) :
                  IsHeader(consumed[n]) =>
                    ~IsPrefix(SeqId(1 + HeaderCount(consumed, j - 1)), out[n])

\* '>' alone as second header is '>seq_2 ', the header after it is seq_3
C6_Witness ==
  /\ Len(consumed) = 3
  /\ IsHeader(consumed[1]) /\ NoTaxa(consumed[2]) /\ IsHeader(consumed[3])
  /\ OutLines[2] = <<">", "s", "e", "q", "_", "2", " ", NL>>
  /\ IsPrefix(SeqId(3), OutLines[3])

\* C7: for an input with at least one header line, the transform run on its
\* own output gives a different text: every header '>seq_k ...' comes back
\* as '>seq_k k__seq_k...'
C7_NotIdempotent ==
  (pc = "exited" /\ HeaderCount(consumed, Len(consumed)) > 0) =>
    LET again == ReadLines(ConvertText(disk))
    IN  /\ ConvertText(disk) # disk
        /\ Len(again) = Len(consumed)
        /\ \A j \in 1..Len(consumed) :
             IsHeader(consumed[j]) =>
               LET k == HeaderCount(consumed, j)
               IN  IsPrefix(SeqId(k) \o <<"k", "_", "_", "s", "e", "q", "_">> \o IntToStr(k),
                            again[j])

\* a complete run over a header without taxa and a header with one
C7_Witness ==
  /\ pc = "exited" /\ failure = "none"
  /\ Len(consumed) = 3
  /\ NoTaxa(consumed[1]) /\ ~IsHeader(consumed[2])
  /\ IsHeader(consumed[3]) /\ ~NoTaxa(consumed[3])
  /\ ConvertText(disk) # disk

\* C8: when the input file is missing or the conversion fails, the program
\* prints a message, ends with a non-zero exit status and reports no success
C8_FailureExitsNonZero ==
  (pc = "exited" /\ failure # "none") =>
    /\ stdout # <<>>
    /\ \A i \in 1..Len(stdout) : stdout[i] # "success"
    /\ exit_status # 0

C10_FlushEveryIntervalOfLines ==
  /\ flushes = processed_lines \div FlushInterval
  /\ Len(stdout) = flushes

\* C10 (as stated): the sink is flushed exactly when the number of header
\* lines processed reaches a positive multiple of 10,000
C10_AsStated == flushes = (sequence_counter - 1) \div FlushInterval

\* two checkpoints passed, sequence lines among the input
C10_Witness ==
  /\ flushes = 2
  /\ processed_lines = 2 * FlushInterval
  /\ sequence_counter - 1 < processed_lines
====
